---- MODULE Spec2Model ----
(***************************************************************************)
(* cpar (Crop Preserving Aspect Ratio), src/main.rs.                       *)
(*                                                                         *)
(* `main` parses the command line, creates the output folder and then, for *)
(* every source file in order: decodes it, scans the right and the bottom  *)
(* edge for the innermost pixel below a luminance threshold, picks a crop  *)
(* edge at a percentile of the sorted offsets, subtracts the extra margin, *)
(* computes dimensions that restore the original aspect ratio, crops,      *)
(* resizes and saves.                                                      *)
(*                                                                         *)
(* Numbers keep the representation the program gives them:                 *)
(*   - u32 values are held as their 32-bit pattern read as a signed        *)
(*     integer (v for v < 2^31, v - 2^32 otherwise), so that a wrapped     *)
(*     subtraction stays inside the integers of the model checker;         *)
(*   - f32 values are held exactly, as [m, e] standing for m * 2^e with m  *)
(*     odd (or 0) and m < 2^24, and every f32 operation rounds its exact   *)
(*     result to the nearest such value, ties to even.                     *)
(***************************************************************************)
EXTENDS Integers, Sequences, FiniteSets

(***************************************************************************)
(* Bounds of the model.                                                    *)
(***************************************************************************)
MaxFiles == 2      \* source files on the command line
MaxW == 2          \* width of a decoded image in the batch run
MaxH == 2          \* height of a decoded image in the batch run
ScanW == 3         \* width of a grid handed to the edge scan alone
ScanH == 3         \* height of a grid handed to the edge scan alone
MaxLen == 6        \* length of an offset sequence handed to the selection alone
MaxOff == 1        \* largest offset in such a sequence
MaxDim == 22       \* width and height handed to the resize computation alone

(***************************************************************************)
(* Option<T>                                                               *)
(***************************************************************************)
None == [some |-> FALSE, val |-> 0]
Some(v) == [some |-> TRUE, val |-> v]
UnwrapOr(o, d) == IF o.some THEN o.val ELSE d

(***************************************************************************)
(* f32 arithmetic.                                                         *)
(***************************************************************************)
RECURSIVE Pow2(_)
Pow2(k) == IF k = 0 THEN 1 ELSE 2 * Pow2(k - 1)

Two23 == Pow2(23)
Two24 == Pow2(24)

RECURSIVE BitLen(_)
BitLen(m) == IF m = 0 THEN 0 ELSE 1 + BitLen(m \div 2)

F32Zero == [m |-> 0, e |-> 0]
F32One == [m |-> 1, e |-> 0]

\* the canonical form of m * 2^e
RECURSIVE Reduce(_, _)
Reduce(m, e) ==
    IF m = 0 THEN F32Zero
    ELSE IF m % 2 = 0 THEN Reduce(m \div 2, e + 1)
    ELSE [m |-> m, e |-> e]

\* the f32 nearest to (n / d) * 2^e, ties to even (n >= 0, d >= 1)
RECURSIVE RoundRat(_, _, _)
RoundRat(n, d, e) ==
    IF n = 0 THEN F32Zero
    ELSE IF d = 1 /\ n < Two24 THEN Reduce(n, e)      \* exact
    ELSE IF n \div d < Two23 THEN RoundRat(2 * n, d, e - 1)
    ELSE IF n \div d >= Two24 THEN RoundRat(n, 2 * d, e + 1)
    ELSE LET q == n \div d
             r == n % d
             up == (2 * r > d) \/ (2 * r = d /\ q % 2 = 1)
         IN  Reduce(IF up THEN q + 1 ELSE q, e)

IntToF32(n) == RoundRat(n, 1, 0)

\* `v as f32` for a u32 v
U32ToF32(v) ==
    IF v >= 0 THEN IntToF32(v)
    ELSE LET k == 0 - v               \* the value is 2^32 - k
             a == k \div 256
             b == k % 256
         IN  IF b = 0 THEN Reduce(Two24 - a, 8)
             ELSE LET q == Two24 - a - 1
                      r == 256 - b
                      up == (2 * r > 256) \/ (2 * r = 256 /\ q % 2 = 1)
                  IN  Reduce(IF up THEN q + 1 ELSE q, 8)

\* n and d scaled by powers of two until d <= n < 2d
RECURSIVE DivNorm(_, _, _)
DivNorm(n, d, e) ==
    IF n < d THEN DivNorm(2 * n, d, e - 1)
    ELSE IF n >= 2 * d THEN DivNorm(n, 2 * d, e + 1)
    ELSE <<n, d, e>>

\* k further bits of the quotient, by long division
RECURSIVE DivBits(_, _, _, _)
DivBits(q, r, d, k) ==
    IF k = 0 THEN <<q, r>>
    ELSE IF 2 * r >= d THEN DivBits(2 * q + 1, 2 * r - d, d, k - 1)
    ELSE DivBits(2 * q, 2 * r, d, k - 1)

\* a / b for b > 0: the quotient to 24 bits, rounded to nearest, ties to even
F32Div(a, b) ==
    IF a.m = 0 THEN F32Zero
    ELSE LET s == DivNorm(a.m, b.m, a.e - b.e)
             qr == DivBits(1, s[1] - s[2], s[2], 23)
             up == (2 * qr[2] > s[2]) \/ (2 * qr[2] = s[2] /\ qr[1] % 2 = 1)
         IN  Reduce(IF up THEN qr[1] + 1 ELSE qr[1], s[3] - 23)

F32Mul(a, b) == RoundRat(a.m * b.m, 1, a.e + b.e)

\* a - b for a >= b
F32Sub(a, b) ==
    LET e == IF a.e < b.e THEN a.e ELSE b.e
    IN  RoundRat(a.m * Pow2(a.e - e) - b.m * Pow2(b.e - e), 1, e)

F32Lt(a, b) ==
    IF b.m = 0 THEN FALSE
    ELSE IF a.m = 0 THEN TRUE
    ELSE LET ta == a.e + BitLen(a.m)
             tb == b.e + BitLen(b.m)
         IN  IF ta # tb THEN ta < tb
             ELSE a.m * Pow2(24 - BitLen(a.m)) < b.m * Pow2(24 - BitLen(b.m))

F32Floor(a) ==
    IF a.e >= 0 THEN a
    ELSE IF 0 - a.e >= 24 THEN F32Zero
    ELSE Reduce(a.m \div Pow2(0 - a.e), 0)

\* `a as u32` for an integral a >= 0: the cast saturates at u32::MAX
F32ToU32(a) ==
    LET t == a.e + BitLen(a.m)
    IN  IF a.m = 0 THEN 0
        ELSE IF t > 32 THEN 0 - 1
        ELSE IF t = 32 THEN ((a.m - Pow2(BitLen(a.m))) * Pow2(a.e - 1)) * 2
        ELSE a.m * Pow2(a.e)

\* `a as usize` for an integral a >= 0 below 2^31
F32ToUsize(a) == a.m * Pow2(a.e)

(***************************************************************************)
(* u32 arithmetic.                                                         *)
(***************************************************************************)
\* a < b on u32
U32Lt(a, b) == IF (a < 0) = (b < 0) THEN a < b ELSE b < 0

\* Ord::max and Ord::min on u32
U32Max(a, b) == IF U32Lt(a, b) THEN b ELSE a
U32Min(a, b) == IF U32Lt(b, a) THEN b ELSE a

\* a - b modulo 2^32 (for a, b below 2^31)
WrappingSub(a, b) == a - b

(***************************************************************************)
(* Command line (struct CPAR).                                             *)
(***************************************************************************)
DefaultThreshold == 250
DefaultPercentile == 95
DefaultExtra == 0
DefaultDownscale == <<1, 1>>     \* the decimal 1.0, as numerator and denominator

\* a shared flag and its two per-axis overrides, which conflict with it
Flags(default, vals) ==
    {[shared |-> s, x |-> None, y |-> None] : s \in vals \cup {default}}
    \cup {[shared |-> default, x |-> a, y |-> b] :
             <<a, b>> \in ({None} \cup {Some(v) : v \in vals})
                          \X ({None} \cup {Some(v) : v \in vals})
                      \ {<<None, None>>}}

\* decimals given to --downscale, as numerator and denominator
OneAndHalf == <<3, 2>>
OneAndFifth == <<6, 5>>

\* the f32 the command line parser makes of a decimal: the nearest one
ParseF32(decimal) == RoundRat(decimal[1], decimal[2], 0)

ArgSet(sources, thresholds, percentiles, extras, downscales) ==
    {[nsource |-> n, threshold |-> t, percentile |-> p, extra |-> x,
      downscale_arg |-> d, downscale |-> ParseF32(d)] :
        n \in sources, t \in Flags(DefaultThreshold, thresholds),
        p \in Flags(DefaultPercentile, percentiles),
        x \in Flags(DefaultExtra, extras),
        d \in {DefaultDownscale} \cup downscales}

(***************************************************************************)
(* Decoded images: a grid of luminance values.                             *)
(***************************************************************************)
LumaSet == {0, 255}

\* the pixel contents of a w x h image
Pixels(w, h) == [(0 .. w - 1) \X (0 .. h - 1) -> LumaSet]

NoImg == [width |-> 0, height |-> 0, px |-> <<>>]
NoDims == [width |-> 0, height |-> 0]

\* img.get_pixel(x, y).to_luma().0[0]
GetLuma(im, x, y) == im.px[<<x, y>>]

VARIABLES
    args,             \* the parsed command line
    overflow_checks,  \* whether the build panics on integer overflow
    pc,               \* position of main
    i,                \* index of the current source file, from 1
    img,              \* the decoded image
    x_thresholds,     \* offsets found along the right edge
    y_thresholds,     \* offsets found along the bottom edge
    x_edge,           \* the crop edges
    y_edge,
    cropped,          \* dimensions of the cropped image
    scaled,           \* dimensions handed to resize_exact
    written,          \* indexes of the source files whose output was saved
    panic_msg         \* message of the panic that ended the run, if any

vars == <<args, overflow_checks, pc, i, img, x_thresholds, y_thresholds,
          x_edge, y_edge, cropped, scaled, written, panic_msg>>

image == <<img, x_thresholds, y_thresholds, x_edge, y_edge, cropped, scaled>>

(***************************************************************************)
(* Resolved configuration.                                                 *)
(***************************************************************************)
XThreshold == UnwrapOr(args.threshold.x, args.threshold.shared)
YThreshold == UnwrapOr(args.threshold.y, args.threshold.shared)

\* 1.0 - p as f32 / 100.0
Fraction(p) == F32Sub(F32One, F32Div(IntToF32(p), IntToF32(100)))

XPercentile == Fraction(UnwrapOr(args.percentile.x, args.percentile.shared))
YPercentile == Fraction(UnwrapOr(args.percentile.y, args.percentile.shared))
XExtra == UnwrapOr(args.extra.x, args.extra.shared)
YExtra == UnwrapOr(args.extra.y, args.extra.shared)

(***************************************************************************)
(* Edge scan.                                                              *)
(***************************************************************************)
\* ScanRow with <= for <
RECURSIVE ScanRowInclusive(_, _, _, _)
ScanRowInclusive(im, y, x, t) ==
    IF x < 0 THEN <<>>
    ELSE IF GetLuma(im, x, y) <= t THEN <<x>>
    ELSE ScanRowInclusive(im, y, x - 1, t)

\* the inner loop over x, from x down to 0: the offset pushed, if any
RECURSIVE ScanRow(_, _, _, _)
ScanRow(im, y, x, t) ==
    IF x < 0 THEN <<>>
    ELSE IF GetLuma(im, x, y) < t THEN <<x>>
    ELSE ScanRow(im, y, x - 1, t)

\* the outer loop over y, from y up to height - 1
RECURSIVE ScanRight(_, _, _)
ScanRight(im, y, t) ==
    IF y >= im.height THEN <<>>
    ELSE ScanRow(im, y, im.width - 1, t) \o ScanRight(im, y + 1, t)

RECURSIVE ScanColumn(_, _, _, _)
ScanColumn(im, x, y, t) ==
    IF y < 0 THEN <<>>
    ELSE IF GetLuma(im, x, y) < t THEN <<y>>
    ELSE ScanColumn(im, x, y - 1, t)

RECURSIVE ScanBottom(_, _, _)
ScanBottom(im, x, t) ==
    IF x >= im.width THEN <<>>
    ELSE ScanColumn(im, x, im.height - 1, t) \o ScanBottom(im, x + 1, t)

(***************************************************************************)
(* Percentile selection.                                                   *)
(***************************************************************************)
RECURSIVE InsertSorted(_, _)
InsertSorted(s, v) ==
    IF s = <<>> THEN <<v>>
    ELSE IF U32Lt(v, Head(s)) THEN <<v>> \o s
    ELSE <<Head(s)>> \o InsertSorted(Tail(s), v)

RECURSIVE SortUnstable(_)
SortUnstable(s) ==
    IF s = <<>> THEN <<>>
    ELSE InsertSorted(SortUnstable(Tail(s)), Head(s))

\* (fraction * (len - 1) as f32).floor() as usize
PercentileIndex(fraction, len) ==
    F32ToUsize(F32Floor(F32Mul(fraction, IntToF32(len - 1))))

\* *thresholds.get(index).unwrap()
RawEdge(sorted, fraction) == sorted[PercentileIndex(fraction, Len(sorted)) + 1]

\* whether raw - extra overflows
SubOverflows(raw, extra) == U32Lt(raw, extra)

\* (raw - extra).max(0) in a build that does not panic on overflow
Edge(raw, extra) == U32Max(WrappingSub(raw, extra), 0)

(***************************************************************************)
(* Aspect ratio.                                                           *)
(***************************************************************************)
\* [new_x, new_y]
NewSize(width, height, xe, ye) ==
    LET f_width == U32ToF32(width)
        f_height == U32ToF32(height)
        x_rel_size == F32Div(U32ToF32(xe), f_width)
        y_rel_size == F32Div(U32ToF32(ye), f_height)
    IN  IF F32Lt(x_rel_size, y_rel_size)
        THEN <<U32ToF32(xe), F32Mul(x_rel_size, F32Floor(f_height))>>
        ELSE <<F32Mul(y_rel_size, f_width), U32ToF32(ye)>>

\* (new / downscale).floor() as u32
Downscaled(new, downscale) == F32ToU32(F32Floor(F32Div(new, downscale)))

\* the dimensions handed to resize_exact
TargetDims(width, height, xe, ye, downscale) ==
    LET new == NewSize(width, height, xe, ye)
    IN  [width |-> Downscaled(new[1], downscale),
         height |-> Downscaled(new[2], downscale)]

\* the dimensions of img.crop_imm(0, 0, xe, ye)
CropDims(im, xe, ye) ==
    [width |-> U32Min(xe, im.width), height |-> U32Min(ye, im.height)]

(***************************************************************************)
(* main, one step at a time.                                               *)
(***************************************************************************)
\* fs::create_dir_all(&args.output)?
Setup ==
    /\ pc = "setup"
    /\ \E ok \in BOOLEAN :
          pc' = IF ok THEN "open" ELSE "exit_err"
    /\ UNCHANGED <<args, overflow_checks, i, image, written, panic_msg>>

\* ImageReader::open(&path)? fails: main returns the error
OpenErr ==
    /\ pc = "open"
    /\ i <= args.nsource
    /\ pc' = "exit_err"
    /\ UNCHANGED <<args, overflow_checks, i, image, written, panic_msg>>

\* decode() fails: expect panics
DecodePanic ==
    /\ pc = "open"
    /\ i <= args.nsource
    /\ pc' = "panicked"
    /\ panic_msg' = "failed to decode image"
    /\ UNCHANGED <<args, overflow_checks, i, image, written>>

\* the file decodes to an image
Decode ==
    /\ pc = "open"
    /\ i <= args.nsource
    /\ \E w \in 1 .. MaxW, h \in 1 .. MaxH :
          \E p \in Pixels(w, h) :
             img' = [width |-> w, height |-> h, px |-> p]
    /\ pc' = "scan"
    /\ UNCHANGED <<args, overflow_checks, i, x_thresholds, y_thresholds,
                   x_edge, y_edge, cropped, scaled, written, panic_msg>>

\* the two scanning loops
Scan ==
    /\ pc = "scan"
    /\ x_thresholds' = ScanRight(img, 0, XThreshold)
    /\ y_thresholds' = ScanBottom(img, 0, YThreshold)
    /\ pc' = "check"
    /\ UNCHANGED <<args, overflow_checks, i, img, x_edge, y_edge, cropped,
                   scaled, written, panic_msg>>

\* DetectionFails with && for ||
DetectionFailsBoth(xs, ys) == xs = <<>> /\ ys = <<>>

\* whether main gives up on the image
DetectionFails(xs, ys) == xs = <<>> \/ ys = <<>>

\* if x_thresholds.is_empty() || y_thresholds.is_empty() { panic!(..) }
Check ==
    /\ pc = "check"
    /\ IF DetectionFails(x_thresholds, y_thresholds)
       THEN /\ pc' = "panicked"
            /\ panic_msg' = "Failed to detect sides of image"
       ELSE /\ pc' = "select"
            /\ UNCHANGED panic_msg
    /\ UNCHANGED <<args, overflow_checks, i, image, written>>

\* sort, pick the element at the percentile, subtract the extra margin
Select ==
    /\ pc = "select"
    /\ LET xs == SortUnstable(x_thresholds)
           ys == SortUnstable(y_thresholds)
       IN  /\ x_thresholds' = xs
           /\ y_thresholds' = ys
           /\ IF xs = <<>> \/ ys = <<>>
              THEN \* len() - 1 overflows, or get(..) is None
                   /\ pc' = "panicked"
                   /\ panic_msg' = "called Option::unwrap() on a None value"
                   /\ UNCHANGED <<x_edge, y_edge>>
              ELSE LET x_raw == RawEdge(xs, XPercentile)
                       y_raw == RawEdge(ys, YPercentile)
                   IN  IF /\ overflow_checks
                          /\ \/ SubOverflows(x_raw, XExtra)
                             \/ SubOverflows(y_raw, YExtra)
                       THEN /\ pc' = "panicked"
                            /\ panic_msg' = "attempt to subtract with overflow"
                            /\ UNCHANGED <<x_edge, y_edge>>
                       ELSE /\ x_edge' = Edge(x_raw, XExtra)
                            /\ y_edge' = Edge(y_raw, YExtra)
                            /\ pc' = "resize"
                            /\ UNCHANGED panic_msg
    /\ UNCHANGED <<args, overflow_checks, i, img, cropped, scaled, written>>

\* crop_imm, blur (which keeps the dimensions) and resize_exact
Resize ==
    /\ pc = "resize"
    /\ cropped' = CropDims(img, x_edge, y_edge)
    /\ scaled' = TargetDims(img.width, img.height, x_edge, y_edge,
                            args.downscale)
    /\ pc' = "save"
    /\ UNCHANGED <<args, overflow_checks, i, img, x_thresholds, y_thresholds,
                   x_edge, y_edge, written, panic_msg>>

\* scaled.save(&dest) succeeds: the locals of the iteration are dropped and
\* the loop goes on to the next file
SaveOk ==
    /\ pc = "save"
    /\ written' = written \cup {i}
    /\ i' = i + 1
    /\ img' = NoImg
    /\ x_thresholds' = <<>>
    /\ y_thresholds' = <<>>
    /\ x_edge' = 0
    /\ y_edge' = 0
    /\ cropped' = NoDims
    /\ scaled' = NoDims
    /\ pc' = "open"
    /\ UNCHANGED <<args, overflow_checks, panic_msg>>

\* scaled.save(&dest) fails: expect panics
SavePanic ==
    /\ pc = "save"
    /\ pc' = "panicked"
    /\ panic_msg' = "Failed to save output"
    /\ UNCHANGED <<args, overflow_checks, i, image, written>>

\* the loop is over: Ok(())
Finish ==
    /\ pc = "open"
    /\ i > args.nsource
    /\ pc' = "exit_ok"
    /\ UNCHANGED <<args, overflow_checks, i, image, written, panic_msg>>

(***************************************************************************)
(* The batch run.                                                          *)
(***************************************************************************)
Start(a, oc, at) ==
    /\ args = a
    /\ overflow_checks = oc
    /\ pc = at
    /\ i = 1
    /\ cropped = NoDims
    /\ scaled = NoDims
    /\ written = {}
    /\ panic_msg = "none"

Init ==
    /\ \E a \in ArgSet(1 .. MaxFiles, {0}, {}, {1}, {OneAndHalf}),
          oc \in BOOLEAN : Start(a, oc, "setup")
    /\ img = NoImg
    /\ x_thresholds = <<>>
    /\ y_thresholds = <<>>
    /\ x_edge = 0
    /\ y_edge = 0

Next ==
    \/ Setup
    \/ OpenErr
    \/ DecodePanic
    \/ Decode
    \/ Scan
    \/ Check
    \/ Select
    \/ Resize
    \/ SaveOk
    \/ SavePanic
    \/ Finish

Spec == Init /\ [][Next]_vars

(***************************************************************************)
(* The edge scan alone, on every grid up to ScanW x ScanH.                 *)
(***************************************************************************)
InitScan ==
    /\ \E a \in ArgSet({1}, {0}, {}, {}, {}) : Start(a, FALSE, "scan")
    /\ \E w \in 1 .. ScanW, h \in 1 .. ScanH :
          \E p \in Pixels(w, h) :
             img = [width |-> w, height |-> h, px |-> p]
    /\ x_thresholds = <<>>
    /\ y_thresholds = <<>>
    /\ x_edge = 0
    /\ y_edge = 0

NextScan == Scan

SpecScan == InitScan /\ [][NextScan]_vars

(***************************************************************************)
(* The percentile selection alone, from the state the scan and the check   *)
(* leave for every image of up to MaxLen rows and MaxOff + 1 columns with  *)
(* one dark pixel per row.                                                 *)
(***************************************************************************)
PercentileSet == {0, 60, 100}
ExtraSet == {1, 2}

OffsetSeqs(len, off) == UNION {[1 .. n -> 0 .. off] : n \in 1 .. len}

\* the image whose row k has its only dark pixel in column xs[k + 1]
OneDarkPerRow(xs) ==
    [width |-> MaxOff + 1, height |-> Len(xs),
     px |-> [c \in (0 .. MaxOff) \X (0 .. Len(xs) - 1) |->
                IF c[1] = xs[c[2] + 1] THEN 0 ELSE 255]]

InitSelect ==
    /\ \E a \in ArgSet({1}, {}, PercentileSet, ExtraSet, {}),
          oc \in BOOLEAN : Start(a, oc, "select")
    /\ \E xs \in OffsetSeqs(MaxLen, MaxOff) : img = OneDarkPerRow(xs)
    /\ x_thresholds = ScanRight(img, 0, XThreshold)
    /\ y_thresholds = ScanBottom(img, 0, YThreshold)
    /\ x_edge = 0
    /\ y_edge = 0

NextSelect == Select

SpecSelect == InitSelect /\ [][NextSelect]_vars

(***************************************************************************)
(* The resize computation alone, on every size up to MaxDim x MaxDim and   *)
(* every pair of crop edges within it (the step does not read the pixels). *)
(***************************************************************************)
DownscaleSet == {OneAndHalf, OneAndFifth}

InitResize ==
    /\ \E a \in ArgSet({1}, {}, {}, {}, DownscaleSet) : Start(a, FALSE, "resize")
    /\ \E w \in 1 .. MaxDim, h \in 1 .. MaxDim :
          /\ img = [width |-> w, height |-> h, px |-> <<>>]
          /\ \E xe \in 0 .. w, ye \in 0 .. h :
                /\ x_thresholds = <<xe>>
                /\ y_thresholds = <<ye>>
                /\ x_edge = xe
                /\ y_edge = ye

NextResize == Resize

SpecResize == InitResize /\ [][NextResize]_vars

(***************************************************************************)
(* Properties.                                                             *)
(***************************************************************************)
DecodeMsg == "failed to decode image"
DetectMsg == "Failed to detect sides of image"
OverflowMsg == "attempt to subtract with overflow"

Selected == pc \in {"resize", "save"}

\* the offset the selection picked on each axis (the sequences are sorted
\* once the selection has run)
XRaw == RawEdge(x_thresholds, XPercentile)
YRaw == RawEdge(y_thresholds, YPercentile)

\* max(raw - extra, 0) over the integers
SaturatingSub(raw, extra) == IF raw > extra THEN raw - extra ELSE 0

\* floor(n / d) over the rationals, for an integer n >= 0 and a decimal d > 0
ExactFloorDiv(n, d) == (n * d[2]) \div d[1]

Abs(n) == IF n < 0 THEN 0 - n ELSE n
MaxOf(a, b) == IF a < b THEN b ELSE a

\* C1: a decode failure or a detection failure on one file never ends the
\* run while files after it are still to be processed.
C1_FailureIsolation ==
    ~ (/\ pc = "panicked"
       /\ panic_msg \in {DecodeMsg, DetectMsg}
       /\ i < args.nsource)

\* C2: the crop edge is max(raw_edge - extra_margin, 0): it is 0 whenever
\* the extra margin exceeds the selected offset, and the subtraction
\* neither wraps modulo 2^32 nor panics.
C2_SaturatingMargin ==
    /\ panic_msg # OverflowMsg
    /\ Selected => /\ x_edge = SaturatingSub(XRaw, XExtra)
                   /\ y_edge = SaturatingSub(YRaw, YExtra)

\* C3: the resample step is only ever reached with both target dimensions
\* at least 1; a zero target dimension ends the image's processing before
\* the resample and write steps.
C3_ZeroSizeRejected ==
    pc = "save" => scaled.width # 0 /\ scaled.height # 0

\* C4: when the scan leaves the x-axis or the y-axis offset sequence empty,
\* the image's processing ends in the detection panic before the
\* selection: the selection and the steps after it only ever see two
\* non-empty sequences, and the failed image is neither cropped, resized
\* nor written.
C4_DetectionFailFast ==
    /\ pc \in {"select", "resize", "save"} =>
          x_thresholds # <<>> /\ y_thresholds # <<>>
    /\ panic_msg = DetectMsg =>
          /\ pc = "panicked"
          /\ x_thresholds = <<>> \/ y_thresholds = <<>>
          /\ x_edge = 0 /\ y_edge = 0
          /\ cropped = NoDims
          /\ scaled = NoDims
          /\ i \notin written
    /\ (pc = "panicked" /\ (x_thresholds = <<>> \/ y_thresholds = <<>>)) =>
          panic_msg \in {DetectMsg, DecodeMsg}

\* a detection failure on the y axis alone
C4_Witness ==
    /\ pc = "panicked"
    /\ panic_msg = DetectMsg
    /\ x_thresholds # <<>>
    /\ y_thresholds = <<>>

DarkRows(im, t) ==
    {y \in 0 .. im.height - 1 : \E x \in 0 .. im.width - 1 : im.px[<<x, y>>] < t}
DarkColumns(im, t) ==
    {x \in 0 .. im.width - 1 : \E y \in 0 .. im.height - 1 : im.px[<<x, y>>] < t}
Largest(S) == CHOOSE m \in S : \A v \in S : v <= m
Rank(S, v) == Cardinality({u \in S : u <= v})

\* C5: the x-axis offset sequence holds, for each row with a pixel whose
\* luminance is strictly below the threshold and in row order, exactly one
\* entry, the largest such column, and nothing for the other rows; the
\* y-axis sequence holds, per column, the largest such row.
C5_EdgeScan ==
    pc = "check" =>
        /\ Len(x_thresholds) = Cardinality(DarkRows(img, XThreshold))
        /\ \A y \in DarkRows(img, XThreshold) :
              x_thresholds[Rank(DarkRows(img, XThreshold), y)] =
                  Largest({x \in 0 .. img.width - 1 :
                              img.px[<<x, y>>] < XThreshold})
        /\ Len(y_thresholds) = Cardinality(DarkColumns(img, YThreshold))
        /\ \A x \in DarkColumns(img, YThreshold) :
              y_thresholds[Rank(DarkColumns(img, YThreshold), x)] =
                  Largest({y \in 0 .. img.height - 1 :
                              img.px[<<x, y>>] < YThreshold})

\* a dark rectangle [0,2) x [0,2) on a light ScanW x ScanH background
C5_Witness ==
    /\ pc = "check"
    /\ img.width = ScanW
    /\ img.height = ScanH
    /\ \A x \in 0 .. ScanW - 1, y \in 0 .. ScanH - 1 :
          img.px[<<x, y>>] = IF x < 2 /\ y < 2 THEN 0 ELSE 255
    /\ XThreshold = DefaultThreshold
    /\ YThreshold = DefaultThreshold
    /\ x_thresholds = <<1, 1>>
    /\ y_thresholds = <<1, 1>>

\* C6: with percentile P and n offsets, the selected raw edge is the
\* element at position floor((1 - P/100) * (n - 1)) of the sorted sequence
\* (observed as the crop edge when the extra margin is 0).
C6_PercentileIndex ==
    (Selected /\ XExtra = 0) =>
        LET P == UnwrapOr(args.percentile.x, args.percentile.shared)
            n == Len(x_thresholds)
        IN  x_edge = x_thresholds[((100 - P) * (n - 1)) \div 100 + 1]

\* C7: the dimensions handed to the resampler are floor(new_width / d) and
\* floor(new_height / d), where new_width = x_edge and new_height =
\* floor(x_edge * H / W) if x_edge / W < y_edge / H, and new_width =
\* floor(y_edge * W / H) and new_height = y_edge otherwise.
C7_ResizeComputation ==
    pc = "save" =>
        LET W == img.width
            H == img.height
            xlim == x_edge * H < y_edge * W
            nw == IF xlim THEN x_edge ELSE (y_edge * W) \div H
            nh == IF xlim THEN (x_edge * H) \div W ELSE y_edge
        IN  /\ scaled.width = ExactFloorDiv(nw, args.downscale_arg)
            /\ scaled.height = ExactFloorDiv(nh, args.downscale_arg)

\* C8: with downscale factor 1 the target dimensions fit in the crop box
\* and keep the original ratio up to the rounding of one floor: nw * H and
\* nh * W differ by less than max(W, H).
C8_AspectPreserved ==
    (pc = "save" /\ args.downscale_arg = DefaultDownscale) =>
        /\ scaled.width <= x_edge
        /\ scaled.height <= y_edge
        /\ Abs(scaled.width * img.height - scaled.height * img.width)
              < MaxOf(img.width, img.height)

\* C9: on a fixed offset sequence and extra margin, a higher percentile
\* (a smaller fraction) never yields a larger crop edge.
C9_PercentileMonotone ==
    Selected =>
        \A p \in PercentileSet \cup {DefaultPercentile} :
            p <= UnwrapOr(args.percentile.x, args.percentile.shared) =>
                ~ U32Lt(Edge(RawEdge(x_thresholds, Fraction(p)), XExtra),
                        x_edge)

====
